---- MODULE Spec2Model ----
(***************************************************************************)
(* Model of the Playwright test-execution service: the POST /execute-test   *)
(* handler of src/server.js in its two variants (extended, lines 21-95,     *)
(* and simple, lines 240-324) together with the step interpreter            *)
(* executeStep / executeAssertion of each variant.                          *)
(*                                                                          *)
(* One request is followed from its arrival to the settling of the handler. *)
(* The browser, the page and the HTTP response object are the environment:  *)
(* every awaited browser operation either returns or throws, chosen         *)
(* nondeterministically.                                                    *)
(***************************************************************************)
EXTENDS Integers, Sequences, FiniteSets, TLC

\* ---------------------------------------------------------------- bounds
\* Longest steps list of a test case.
MaxSteps == 2

\* ------------------------------------------------------- JavaScript values
\* A field that is absent from the JSON payload.
Unset == "unset"
\* The value of a StepResult field that was never assigned.
Absent == "<absent>"

\* step.action as a JavaScript value: its type and its String() rendering.
StrAction(s) == [type |-> "string", val |-> s]
UndefAction == [type |-> "undefined", val |-> "undefined"]
NumAction == [type |-> "number", val |-> "5"]

\* String.prototype.toLowerCase on the action strings of the inputs.
ToLowerCase(s) ==
  CASE s = "GOTO" -> "goto"
    [] s = "Click" -> "click"
    [] s = "Fill" -> "fill"
    [] OTHER -> s

\* ------------------------------------------------------------------ inputs
Flags == {Unset, "true", "false"}

MkStep(a, at, c, s, sh) ==
  [action |-> a, assertionType |-> at, expectedValue |-> "Hello",
   continueOnFail |-> c, stopOnFail |-> s, screenshotOnFail |-> sh,
   description |-> IF a = StrAction("fill") THEN "Fill user" ELSE Unset]

\* The steps a request may carry: every combination of the three failure
\* flags on a click step, and the remaining action kinds with unset flags.
StepInputs ==
  { MkStep(StrAction("click"), Unset, c, s, sh) :
      c \in Flags, s \in {Unset, "false"}, sh \in {Unset, "false"} }
  \cup
  { MkStep(a, Unset, Unset, Unset, Unset) :
      a \in { StrAction("GOTO"), StrAction("Click"), StrAction("fill"),
              StrAction("screenshot"), StrAction("select"),
              StrAction("bogus"), UndefAction, NumAction } }
  \cup
  { MkStep(StrAction("expect"), at, Unset, Unset, Unset) :
      at \in {"toHaveText", "toBeVisible", "toBogus"} }

StepLists == UNION { [1..n -> StepInputs] : n \in 0..MaxSteps }

\* req.body.testCase: absent, or an object with an optional name and an
\* optional steps list.
NoTestCase == [present |-> FALSE, name |-> Unset, hasSteps |-> FALSE, steps |-> <<>>]

TestCases ==
  {NoTestCase}
  \cup { [present |-> TRUE, name |-> nm, hasSteps |-> FALSE, steps |-> <<>>] :
           nm \in {Unset} }
  \cup { [present |-> TRUE, name |-> nm, hasSteps |-> TRUE, steps |-> ss] :
           nm \in {"Login"}, ss \in StepLists }
  \cup { [present |-> TRUE, name |-> Unset, hasSteps |-> TRUE, steps |-> <<>>] }

Variants == {"extended", "simple"}

\* ------------------------------------------------------------------- state
VARIABLES
  variant,       \* which handler serves the request
  testCase,      \* req.body.testCase
  pc,            \* position of the handler
  browser,       \* the handler's local `browser`: "undefined" or "launched"
  launchCalls,   \* calls of launch() made by the request
  closeCalls,    \* calls of browser.close() made by the request
  index,         \* index of the loop's current step (0-based)
  running,       \* executeStep calls that have not returned yet
  executed,      \* indices executeStep was invoked on, in call order
  results,       \* the handler's local `results`
  overallStatus, \* the handler's local `overallStatus`
  error,         \* message of the exception the outer catch received
  responses,     \* HTTP responses sent on `res`, in order
  escaped,       \* the handler's promise rejected (exception left the handler)
  faults,        \* the awaited operations that threw (environment history)
  interp,        \* one step run through the step interpreter on its own
  conc,          \* two requests served concurrently by one process
  batch,         \* a POST /execute-batch request
  proc,          \* the Node.js process serving the requests
  dom            \* a GET /get-dom request

\* The state of the POST /execute-test request being followed.
reqVars == <<variant, testCase, pc, browser, launchCalls, closeCalls, index,
             running, executed, results, overallStatus, error, responses,
             escaped, faults>>

\* The state of the other parts of the service.
aux == <<interp, conc, batch, proc, dom>>

vars == <<reqVars, aux>>

\* A part of the service that takes no part in the specification at hand.
Idle == [pc |-> "idle"]

Init ==
  /\ variant \in Variants
  /\ testCase \in TestCases
  /\ pc = "start"
  /\ browser = "undefined"
  /\ launchCalls = 0
  /\ closeCalls = 0
  /\ index = 0
  /\ running = 0
  /\ executed = <<>>
  /\ results = <<>>
  /\ overallStatus = Unset
  /\ error = Unset
  /\ responses = <<>>
  /\ escaped = FALSE
  /\ faults = {}
  /\ interp = Idle
  /\ conc = Idle
  /\ batch = Idle
  /\ proc = Idle
  /\ dom = Idle

\* ------------------------------------------------------------ environment
\* What the page does when a step's browser operation is awaited: the
\* operation returns ("ok") or throws ("fail"); `text` is the text content
\* and `visible` the visibility of the element an assertion selects.
OpError == "Timeout exceeded"

Outcome(op, text, visible) == [op |-> op, text |-> text, visible |-> visible]

PageTexts == {"Hello", "Bye"}

\* The outcomes that can make a difference to the given step.
PageOutcomes(step) ==
  IF step.action.type = "string"
     /\ ToLowerCase(step.action.val) \in {"expect", "assert"}
  THEN { Outcome("ok", t, v) : t \in PageTexts, v \in BOOLEAN }
       \cup { Outcome("fail", "Hello", FALSE) }
  ELSE { Outcome(o, "Hello", TRUE) : o \in {"ok", "fail"} }

\* ------------------------------------------------------- step interpreter
Returned(payload) == [threw |-> FALSE, msg |-> Absent, result |-> payload]
Thrown(message) == [threw |-> TRUE, msg |-> message, result |-> Absent]

\* An awaited page operation followed by `return payload`.
PageOp(env, payload) ==
  IF env.op = "ok" THEN Returned(payload) ELSE Thrown(OpError)

\* executeAssertion of the extended variant. `expect` is never imported or
\* defined in that file, so evaluating `expect(element)` raises a
\* ReferenceError in every recognized branch.
executeAssertion(step, env) ==
  CASE step.assertionType \in {"toHaveText", "toBeVisible", "toHaveURL", "toHaveTitle"}
         -> Thrown("expect is not defined")
    [] OTHER -> Thrown("Unknown assertion: " \o step.assertionType)

\* executeStep of the extended variant: `step.action.toLowerCase()`.
executeStepExtended(step, env) ==
  IF step.action.type = "undefined"
  THEN Thrown("Cannot read properties of undefined (reading 'toLowerCase')")
  ELSE IF step.action.type # "string"
  THEN Thrown("step.action.toLowerCase is not a function")
  ELSE LET kind == ToLowerCase(step.action.val) IN
    CASE kind = "goto" -> PageOp(env, "url")
      [] kind = "click" -> PageOp(env, "clicked")
      [] kind \in {"fill", "type"} -> PageOp(env, "filled")
      [] kind = "select" -> PageOp(env, "selected")
      [] kind = "wait" -> PageOp(env, "waited")
      [] kind = "screenshot" -> PageOp(env, "screenshot")
      [] kind \in {"expect", "assert"} -> executeAssertion(step, env)
      [] kind = "scroll" -> PageOp(env, "scrolled")
      [] kind = "hover" -> PageOp(env, "hovered")
      [] kind = "press" -> PageOp(env, "pressed")
      [] OTHER -> Thrown("Unknown action: " \o step.action.val)

\* The expect/assert branch of the simple variant's executeStep.
simpleAssertion(step, env) ==
  CASE step.assertionType = "toHaveText" ->
         IF env.op # "ok" THEN Thrown(OpError)
         ELSE IF env.text # step.expectedValue
         THEN Thrown("Expected \"" \o step.expectedValue \o "\", got \""
                     \o env.text \o "\"")
         ELSE Returned("text matches")
    [] step.assertionType = "toBeVisible" ->
         IF env.op # "ok" THEN Thrown(OpError)
         ELSE IF ~env.visible THEN Thrown("Element is not visible")
         ELSE Returned("element is visible")
    [] OTHER -> Thrown("Unknown assertion: " \o step.assertionType)

\* executeStep of the simple variant: `step.action?.toLowerCase()`.
executeStepSimple(step, env) ==
  IF step.action.type = "number"
  THEN Thrown("step.action?.toLowerCase is not a function")
  ELSE IF step.action.type = "undefined"
  THEN Thrown("Unknown action: " \o step.action.val)
  ELSE LET kind == ToLowerCase(step.action.val) IN
    CASE kind = "goto" -> PageOp(env, "url")
      [] kind = "click" -> PageOp(env, "clicked")
      [] kind \in {"fill", "type"} -> PageOp(env, "filled")
      [] kind = "wait" -> PageOp(env, "waited")
      [] kind = "screenshot" -> PageOp(env, "screenshot")
      [] kind \in {"expect", "assert"} -> simpleAssertion(step, env)
      [] OTHER -> Thrown("Unknown action: " \o step.action.val)

executeStep(v, step, env) ==
  IF v = "extended" THEN executeStepExtended(step, env)
  ELSE executeStepSimple(step, env)

\* ------------------------------------------------------------ the handler
\* `testCase.steps` once the loop header has evaluated it.
StepsOf(tc) == IF tc.hasSteps THEN tc.steps ELSE <<>>

\* step.description || `Step ${index + 1}`
StepLabel(step, i) ==
  IF step.description # Unset THEN step.description
  ELSE "Step " \o ToString(i + 1)

PassedResult(i, step, payload) ==
  [stepIndex |-> i, step |-> StepLabel(step, i), status |-> "passed",
   result |-> payload, error |-> Absent, screenshot |-> Absent]

\* The failed StepResult numbered like its label (`index + 1`).
FailedResultOneBased(i, step, message) ==
  [stepIndex |-> i + 1, step |-> StepLabel(step, i), status |-> "failed",
   result |-> Absent, error |-> message, screenshot |-> Absent]

FailedResult(i, step, message) ==
  [stepIndex |-> i, step |-> StepLabel(step, i), status |-> "failed",
   result |-> Absent, error |-> message, screenshot |-> Absent]

\* The loop's decision after a failed step: TRUE when it breaks.
\* Extended: `step.stopOnFail !== false`; simple: `step.continueOnFail !== true`.
StopsOnFailure(v, step) ==
  IF v = "extended" THEN step.stopOnFail # "false"
  ELSE step.continueOnFail # "true"

\* Extended only: `step.screenshotOnFail !== false` guards the failure
\* screenshot; the simple handler takes none.
TakesFailureScreenshot(v, step) ==
  v = "extended" /\ step.screenshotOnFail # "false"

\* A verdict that looks at the last StepResult only (a slip that a loop which
\* always stops at the first failure would hide).
OverallStatusLastOnly(rs) ==
  IF rs = <<>> \/ rs[Len(rs)].status = "passed" THEN "passed" ELSE "failed"

\* results.every(r => r.status === 'passed') ? 'passed' : 'failed'
OverallStatus(rs) ==
  IF \A k \in 1..Len(rs) : rs[k].status = "passed" THEN "passed" ELSE "failed"

\* testCase.name (extended) / testCase.name || 'Unnamed Test' (simple)
TestName(v, tc) ==
  IF v = "simple" /\ tc.name = Unset THEN "Unnamed Test" ELSE tc.name

Report(v, tc, st, rs) ==
  [code |-> 200, testName |-> TestName(v, tc), status |-> st,
   results |-> rs, error |-> Absent]

ClientError ==
  [code |-> 400, testName |-> Absent, status |-> Absent,
   results |-> <<>>, error |-> "testCase is required"]

ServerError(message) ==
  [code |-> 500, testName |-> Absent, status |-> "error",
   results |-> <<>>, error |-> message]

\* An exception raised inside the outer try block.
Raise(message) ==
  /\ pc' = "catch"
  /\ error' = message

\* Simple, lines 243-247: `if (!testCase) return res.status(400).json(...)`.
RejectMissing ==
  /\ pc = "start"
  /\ variant = "simple"
  /\ ~testCase.present
  /\ responses' = Append(responses, ClientError)
  /\ pc' = "done"
  /\ UNCHANGED aux
  /\ UNCHANGED <<variant, testCase, browser, launchCalls, closeCalls, index,
                 running, executed, results, overallStatus, error, escaped,
                 faults>>

\* The request enters the try block. The extended handler has no check of
\* testCase at all.
Accept ==
  /\ pc = "start"
  /\ variant = "simple" => testCase.present
  /\ pc' = "launch"
  /\ UNCHANGED aux
  /\ UNCHANGED <<variant, testCase, browser, launchCalls, closeCalls, index,
                 running, executed, results, overallStatus, error, responses,
                 escaped, faults>>

\* browser = await engine.launch(...)
LaunchOk ==
  /\ pc = "launch"
  /\ browser' = "launched"
  /\ launchCalls' = launchCalls + 1
  /\ pc' = "newPage"
  /\ UNCHANGED aux
  /\ UNCHANGED <<variant, testCase, closeCalls, index, running, executed,
                 results, overallStatus, error, responses, escaped, faults>>

LaunchThrows ==
  /\ pc = "launch"
  /\ launchCalls' = launchCalls + 1
  /\ faults' = faults \cup {"launch"}
  /\ Raise("launch failed")
  /\ UNCHANGED aux
  /\ UNCHANGED <<variant, testCase, browser, closeCalls, index, running,
                 executed, results, overallStatus, responses, escaped>>

\* const page = await browser.newPage()
NewPageOk ==
  /\ pc = "newPage"
  /\ pc' = "viewport"
  /\ UNCHANGED aux
  /\ UNCHANGED <<variant, testCase, browser, launchCalls, closeCalls, index,
                 running, executed, results, overallStatus, error, responses,
                 escaped, faults>>

NewPageThrows ==
  /\ pc = "newPage"
  /\ faults' = faults \cup {"newPage"}
  /\ Raise("newPage failed")
  /\ UNCHANGED aux
  /\ UNCHANGED <<variant, testCase, browser, launchCalls, closeCalls, index,
                 running, executed, results, overallStatus, responses, escaped>>

\* await page.setViewportSize(...)
ViewportOk ==
  /\ pc = "viewport"
  /\ pc' = "loop"
  /\ UNCHANGED aux
  /\ UNCHANGED <<variant, testCase, browser, launchCalls, closeCalls, index,
                 running, executed, results, overallStatus, error, responses,
                 escaped, faults>>

ViewportThrows ==
  /\ pc = "viewport"
  /\ faults' = faults \cup {"viewport"}
  /\ Raise("setViewportSize failed")
  /\ UNCHANGED aux
  /\ UNCHANGED <<variant, testCase, browser, launchCalls, closeCalls, index,
                 running, executed, results, overallStatus, responses, escaped>>

\* Whether the loop header can produce its iterator. Extended:
\* `testCase.steps.entries()`; simple: `(testCase.steps || []).entries()`.
LoopHeaderThrows(v, tc) == v = "extended" /\ (~tc.present \/ ~tc.hasSteps)

LoopHeaderError(tc) ==
  IF ~tc.present THEN "Cannot read properties of undefined (reading 'steps')"
  ELSE "Cannot read properties of undefined (reading 'entries')"

\* const results = []; the loop header is evaluated.
EnterLoop ==
  /\ pc = "loop"
  /\ ~LoopHeaderThrows(variant, testCase)
  /\ pc' = "iterate"
  /\ UNCHANGED aux
  /\ UNCHANGED <<variant, testCase, browser, launchCalls, closeCalls, index,
                 running, executed, results, overallStatus, error, responses,
                 escaped, faults>>

EnterLoopThrows ==
  /\ pc = "loop"
  /\ LoopHeaderThrows(variant, testCase)
  /\ Raise(LoopHeaderError(testCase))
  /\ UNCHANGED aux
  /\ UNCHANGED <<variant, testCase, browser, launchCalls, closeCalls, index,
                 running, executed, results, overallStatus, responses, escaped,
                 faults>>

CurrentStep == StepsOf(testCase)[index + 1]

\* The call without its `await`: the pending promise is recorded as the
\* step's result and the loop goes on while the step is still running.
CallStepNoAwait ==
  /\ pc = "iterate"
  /\ index < Len(StepsOf(testCase))
  /\ executed' = Append(executed, index)
  /\ running' = running + 1
  /\ results' = Append(results, PassedResult(index, CurrentStep, "promise"))
  /\ index' = index + 1
  /\ pc' = "iterate"
  /\ UNCHANGED aux
  /\ UNCHANGED <<variant, testCase, browser, launchCalls, closeCalls,
                 overallStatus, error, responses, escaped, faults>>

\* The iterator yields the next [index, step] and executeStep is invoked.
CallStep ==
  /\ pc = "iterate"
  /\ index < Len(StepsOf(testCase))
  /\ executed' = Append(executed, index)
  /\ running' = running + 1
  /\ pc' = "step"
  /\ UNCHANGED aux
  /\ UNCHANGED <<variant, testCase, browser, launchCalls, closeCalls, index,
                 results, overallStatus, error, responses, escaped, faults>>

\* The iterator is exhausted: the loop ends normally.
ExitLoop ==
  /\ pc = "iterate"
  /\ index >= Len(StepsOf(testCase))
  /\ pc' = "close"
  /\ UNCHANGED aux
  /\ UNCHANGED <<variant, testCase, browser, launchCalls, closeCalls, index,
                 running, executed, results, overallStatus, error, responses,
                 escaped, faults>>

\* `await executeStep(page, step)` returns: the passed StepResult is pushed.
StepPasses ==
  /\ pc = "step"
  /\ \E env \in PageOutcomes(CurrentStep) :
       LET r == executeStep(variant, CurrentStep, env) IN
         /\ ~r.threw
         /\ results' = Append(results, PassedResult(index, CurrentStep, r.result))
  /\ running' = running - 1
  /\ index' = index + 1
  /\ pc' = "iterate"
  /\ UNCHANGED aux
  /\ UNCHANGED <<variant, testCase, browser, launchCalls, closeCalls, executed,
                 overallStatus, error, responses, escaped, faults>>

\* What follows the inner catch once the failed StepResult is complete:
\* break out of the loop, or go on with the next step.
AfterFailure(step) ==
  IF StopsOnFailure(variant, step)
  THEN pc' = "close" /\ index' = index
  ELSE pc' = "iterate" /\ index' = index + 1

\* `await executeStep(page, step)` throws: the inner catch pushes the failed
\* StepResult, then awaits the failure screenshot or applies the policy.
StepFails ==
  /\ pc = "step"
  /\ \E env \in PageOutcomes(CurrentStep) :
       LET r == executeStep(variant, CurrentStep, env) IN
         /\ r.threw
         /\ results' = Append(results, FailedResult(index, CurrentStep, r.msg))
  /\ running' = running - 1
  /\ IF TakesFailureScreenshot(variant, CurrentStep)
     THEN pc' = "failShot" /\ index' = index
     ELSE AfterFailure(CurrentStep)
  /\ UNCHANGED aux
  /\ UNCHANGED <<variant, testCase, browser, launchCalls, closeCalls, executed,
                 overallStatus, error, responses, escaped, faults>>

\* Extended, lines 60-64: the failure screenshot is attached to the last result.
FailShotOk ==
  /\ pc = "failShot"
  /\ results' = [results EXCEPT ![Len(results)].screenshot = "attached"]
  /\ AfterFailure(CurrentStep)
  /\ UNCHANGED aux
  /\ UNCHANGED <<variant, testCase, browser, launchCalls, closeCalls, running,
                 executed, overallStatus, error, responses, escaped, faults>>

\* Extended, line 60: page.screenshot() throws inside the inner catch block,
\* so the exception reaches the outer catch.
FailShotThrows ==
  /\ pc = "failShot"
  /\ faults' = faults \cup {"failShot"}
  /\ Raise(OpError)
  /\ UNCHANGED aux
  /\ UNCHANGED <<variant, testCase, browser, launchCalls, closeCalls, index,
                 running, executed, results, overallStatus, responses, escaped>>

\* await browser.close() after the loop (line 74 / 297).
CloseOk ==
  /\ pc = "close"
  /\ closeCalls' = closeCalls + 1
  /\ pc' = "respond"
  /\ UNCHANGED aux
  /\ UNCHANGED <<variant, testCase, browser, launchCalls, index, running,
                 executed, results, overallStatus, error, responses, escaped,
                 faults>>

CloseThrows ==
  /\ pc = "close"
  /\ closeCalls' = closeCalls + 1
  /\ faults' = faults \cup {"close"}
  /\ Raise("close failed")
  /\ UNCHANGED aux
  /\ UNCHANGED <<variant, testCase, browser, launchCalls, index, running,
                 executed, results, overallStatus, responses, escaped>>

\* Simple, lines 299-307: the verdict is derived and the report is sent.
SendReport ==
  /\ pc = "respond"
  /\ variant = "simple"
  /\ overallStatus' = OverallStatus(results)
  /\ responses' = Append(responses,
                         Report(variant, testCase, OverallStatus(results), results))
  /\ pc' = "done"
  /\ UNCHANGED aux
  /\ UNCHANGED <<variant, testCase, browser, launchCalls, closeCalls, index,
                 running, executed, results, error, escaped, faults>>

\* Extended, lines 76-84: the verdict is derived, then building the report
\* evaluates `Date.now() - startTime`; the handler declares no startTime
\* (the only one is local to executeStep, line 135), so a ReferenceError is
\* raised before res.json is called.
ReportThrows ==
  /\ pc = "respond"
  /\ variant = "extended"
  /\ overallStatus' = OverallStatus(results)
  /\ Raise("startTime is not defined")
  /\ UNCHANGED aux
  /\ UNCHANGED <<variant, testCase, browser, launchCalls, closeCalls, index,
                 running, executed, results, responses, escaped, faults>>

\* Outer catch, `if (browser)` is false: nothing to close.
CatchNoBrowser ==
  /\ pc = "catch"
  /\ browser = "undefined"
  /\ pc' = "send500"
  /\ UNCHANGED aux
  /\ UNCHANGED <<variant, testCase, browser, launchCalls, closeCalls, index,
                 running, executed, results, overallStatus, error, responses,
                 escaped, faults>>

\* Skipping the release in the error path: the outer catch answers without
\* calling browser.close().
CatchSkipsClose ==
  /\ pc = "catch"
  /\ browser = "launched"
  /\ pc' = "send500"
  /\ UNCHANGED aux
  /\ UNCHANGED <<variant, testCase, browser, launchCalls, closeCalls, index,
                 running, executed, results, overallStatus, error, responses,
                 escaped, faults>>

\* Outer catch: `await browser.close()` returns.
CatchCloseOk ==
  /\ pc = "catch"
  /\ browser = "launched"
  /\ closeCalls' = closeCalls + 1
  /\ pc' = "send500"
  /\ UNCHANGED aux
  /\ UNCHANGED <<variant, testCase, browser, launchCalls, index, running,
                 executed, results, overallStatus, error, responses, escaped,
                 faults>>

\* Simple, lines 311-315: a throwing close is caught and logged.
CatchCloseLogged ==
  /\ pc = "catch"
  /\ browser = "launched"
  /\ variant = "simple"
  /\ closeCalls' = closeCalls + 1
  /\ faults' = faults \cup {"catchClose"}
  /\ pc' = "send500"
  /\ UNCHANGED aux
  /\ UNCHANGED <<variant, testCase, browser, launchCalls, index, running,
                 executed, results, overallStatus, error, responses, escaped>>

\* Extended, line 87: a throwing close is not caught; the exception leaves
\* the async handler and no response is sent.
CatchCloseEscapes ==
  /\ pc = "catch"
  /\ browser = "launched"
  /\ variant = "extended"
  /\ closeCalls' = closeCalls + 1
  /\ faults' = faults \cup {"catchClose"}
  /\ escaped' = TRUE
  /\ pc' = "done"
  /\ UNCHANGED aux
  /\ UNCHANGED <<variant, testCase, browser, launchCalls, index, running,
                 executed, results, overallStatus, error, responses>>

\* res.status(500).json({status: 'error', error: error.message, ...})
SendServerError ==
  /\ pc = "send500"
  /\ responses' = Append(responses, ServerError(error))
  /\ pc' = "done"
  /\ UNCHANGED aux
  /\ UNCHANGED <<variant, testCase, browser, launchCalls, closeCalls, index,
                 running, executed, results, overallStatus, error, escaped,
                 faults>>

Next ==
  \/ RejectMissing
  \/ Accept
  \/ LaunchOk
  \/ LaunchThrows
  \/ NewPageOk
  \/ NewPageThrows
  \/ ViewportOk
  \/ ViewportThrows
  \/ EnterLoop
  \/ EnterLoopThrows
  \/ CallStep
  \/ ExitLoop
  \/ StepPasses
  \/ StepFails
  \/ FailShotOk
  \/ FailShotThrows
  \/ CloseOk
  \/ CloseThrows
  \/ SendReport
  \/ ReportThrows
  \/ CatchNoBrowser
  \/ CatchCloseOk
  \/ CatchCloseLogged
  \/ CatchCloseEscapes
  \/ SendServerError

Spec == Init /\ [][Next]_vars

\* Every awaited operation returns or throws, and the handler's continuation
\* then runs: the handler keeps taking steps until it has settled.
FairSpec == Spec /\ WF_vars(Next)

\* ================================================================= claims
Steps == StepsOf(testCase)

Settled == pc = "done"

IsReport(r) == r.code = 200

AllPassed(rs) == \A k \in 1..Len(rs) : rs[k].status = "passed"

\* The step loop has ended without an exception: `results` is what the
\* handler goes on to report.
LoopEnded == pc \in {"close", "respond"}

\* C1: the report's status is 'passed' if and only if every StepResult in
\* its results is 'passed', and 'failed' otherwise; the same holds of the
\* verdict each handler derives from its results (line 76 / line 299).
C1_StatusPassedIffAllPassed ==
  /\ \A k \in 1..Len(responses) :
       IsReport(responses[k]) =>
         /\ responses[k].status \in {"passed", "failed"}
         /\ responses[k].status = "passed" <=> AllPassed(responses[k].results)
  /\ overallStatus # Unset =>
       /\ overallStatus \in {"passed", "failed"}
       /\ overallStatus = "passed" <=> AllPassed(results)

\* A report over a mixed sequence: a failed step that continued, then a
\* passed one.
C1_Witness ==
  /\ Settled
  /\ Len(responses) = 1
  /\ IsReport(responses[1])
  /\ responses[1].status = "failed"
  /\ Len(responses[1].results) = 2
  /\ responses[1].results[1].status = "failed"
  /\ responses[1].results[2].status = "passed"

\* C2: a request that launched a browser invokes browser.close() exactly
\* once before the handler finishes: never twice, and never zero times once
\* the handler has settled.
C2_ClosedExactlyOnce ==
  /\ closeCalls <= 1
  /\ (Settled /\ browser = "launched") => closeCalls = 1

\* Indices (1-based) of the failed results whose step does not carry
\* continueOnFail === true.
StoppingFailures(rs) ==
  { k \in 1..Len(rs) :
      rs[k].status = "failed" /\ Steps[rs[k].stepIndex + 1].continueOnFail # "true" }

Least(S) == CHOOSE m \in S : \A x \in S : m <= x

ExpectedLength(rs) ==
  IF StoppingFailures(rs) = {} THEN Len(Steps) ELSE Least(StoppingFailures(rs))

\* C3: with n steps, results has length n when no step fails or every
\* failing step has continueOnFail === true, and otherwise length i+1 for
\* the first failing step i whose continueOnFail is not true; stated of the
\* results the loop hands to the report and of every report sent.
C3_ResultsLength ==
  /\ LoopEnded => Len(results) = ExpectedLength(results)
  /\ \A k \in 1..Len(responses) :
       IsReport(responses[k]) =>
         Len(responses[k].results) = ExpectedLength(responses[k].results)

\* C4: executeStep is invoked on a step only if every earlier failing step
\* had continueOnFail === true; after a failure that is not to be continued
\* the failed StepResult stays the last entry of results and the verdict is
\* 'failed'; after a failure with continueOnFail === true the next step is
\* executed and recorded.
C4_StopOrContinueOnFail ==
  /\ \A j \in 1..Len(executed) : \A k \in 1..Len(results) :
       (results[k].status = "failed" /\ results[k].stepIndex < executed[j])
         => Steps[results[k].stepIndex + 1].continueOnFail = "true"
  /\ \A k \in StoppingFailures(results) : k = Len(results)
  /\ (StoppingFailures(results) # {} /\ overallStatus # Unset)
       => overallStatus = "failed"
  /\ LoopEnded =>
       \A k \in 1..Len(results) :
         (results[k].status = "failed" /\ k < Len(Steps)
          /\ Steps[k].continueOnFail = "true")
           => (Len(results) > k /\ results[k + 1].stepIndex = k)

\* The request carried a well-formed test case and no operation on the
\* browser, the page or the response failed.
NoFault == faults = {}

WellFormed == testCase.present /\ testCase.hasSteps

\* C5: when every step succeeds, the handler answers with a TestReport
\* whose status is 'passed', whose testName is the test case's name and
\* whose results has one 'passed' entry per step, in order, stepIndex 0..n-1.
C5_AllStepsPassReport ==
  (Settled /\ WellFormed /\ NoFault /\ testCase.name # Unset
   /\ Len(results) = Len(Steps) /\ AllPassed(results))
    => /\ Len(responses) = 1
       /\ IsReport(responses[1])
       /\ responses[1].status = "passed"
       /\ responses[1].testName = testCase.name
       /\ Len(responses[1].results) = Len(Steps)
       /\ \A k \in 1..Len(Steps) :
            /\ responses[1].results[k].stepIndex = k - 1
            /\ responses[1].results[k].status = "passed"

\* C6: a body without testCase is answered with 400, no browser is launched
\* at any point of the request and no 500 is produced.
C6_MissingTestCaseRejected ==
  ~testCase.present =>
    /\ launchCalls = 0
    /\ browser = "undefined"
    /\ \A k \in 1..Len(responses) : responses[k].code = 400
    /\ Settled => Len(responses) = 1

\* C7: a test case with zero steps is answered with a TestReport whose
\* status is 'passed' and whose results is empty, the browser having been
\* launched and closed.
C7_ZeroStepsPassed ==
  (Settled /\ WellFormed /\ Len(Steps) = 0 /\ NoFault)
    => /\ Len(responses) = 1
       /\ IsReport(responses[1])
       /\ responses[1].status = "passed"
       /\ responses[1].results = <<>>
       /\ launchCalls = 1
       /\ closeCalls >= 1

\* C8: a failure raised while executing a step, the failure screenshot and
\* the continue/stop policy included, ends in a TestReport that holds every
\* StepResult recorded, the failed one carrying the error message; it never
\* ends in a 500.
C8_StepFailureReported ==
  (Settled /\ ~AllPassed(results) /\ faults \subseteq {"failShot"})
    => /\ Len(responses) = 1
       /\ IsReport(responses[1])
       /\ Len(responses[1].results) = Len(results)
       /\ \A k \in 1..Len(results) :
            /\ responses[1].results[k].stepIndex = results[k].stepIndex
            /\ responses[1].results[k].status = results[k].status
            /\ results[k].status = "failed" =>
                 /\ responses[1].results[k].error = results[k].error
                 /\ responses[1].results[k].error # Absent

\* C9: a request receives exactly one response (400, TestReport or 500) by
\* the time its handler has settled, never more than one before, and no
\* exception leaves the handler.
C9_ExactlyOneResponse ==
  /\ Len(responses) <= 1
  /\ ~escaped
  /\ Settled => Len(responses) = 1

\* The action kinds each variant's executeStep has a case for.
RecognizedKinds(v) ==
  IF v = "extended"
  THEN {"goto", "click", "fill", "type", "select", "wait", "screenshot",
        "expect", "assert", "scroll", "hover", "press"}
  ELSE {"goto", "click", "fill", "type", "wait", "screenshot", "expect",
        "assert"}

Recognized(v, a) == a.type = "string" /\ ToLowerCase(a.val) \in RecognizedKinds(v)

\* C10: a step whose action is not a recognized kind (a missing action
\* included) yields a failed StepResult whose error is 'Unknown action: '
\* followed by the action value; a recognized kind in any letter case is
\* never reported as unknown.
C10_UnknownActionNamed ==
  \A k \in 1..Len(results) :
    LET a == Steps[results[k].stepIndex + 1].action IN
      /\ ~Recognized(variant, a) =>
           /\ results[k].status = "failed"
           /\ results[k].error = "Unknown action: " \o a.val
      /\ Recognized(variant, a) =>
           results[k].error # "Unknown action: " \o a.val

\* ============================================ the step interpreter alone
\* The request variables while another part of the service is examined.
ReqIdle ==
  /\ variant = "simple"
  /\ testCase = NoTestCase
  /\ pc = "idle"
  /\ browser = "undefined"
  /\ launchCalls = 0
  /\ closeCalls = 0
  /\ index = 0
  /\ running = 0
  /\ executed = <<>>
  /\ results = <<>>
  /\ overallStatus = Unset
  /\ error = Unset
  /\ responses = <<>>
  /\ escaped = FALSE
  /\ faults = {}

IsToHaveText(step) ==
  /\ step.action.type = "string"
  /\ ToLowerCase(step.action.val) \in {"expect", "assert"}
  /\ step.assertionType = "toHaveText"

\* Text contents that differ from the expected value by letter case or by
\* trailing text only.
NearMissTexts == {"hello", "Hello world"}

InterpOutcomes(step) ==
  PageOutcomes(step)
  \cup (IF IsToHaveText(step)
        THEN { Outcome("ok", t, TRUE) : t \in NearMissTexts }
        ELSE {})

\* One iteration of the step loop on a single step: executeStep is awaited
\* and its outcome becomes the StepResult (lines 274-288 / 42-56).
InterpInit ==
  /\ ReqIdle
  /\ conc = Idle /\ batch = Idle /\ proc = Idle /\ dom = Idle
  /\ \E v \in Variants : \E st \in StepInputs : \E e \in InterpOutcomes(st) :
       interp = [pc |-> "ready", variant |-> v, step |-> st, env |-> e,
                 result |-> <<>>]

InterpretStep ==
  /\ interp.pc = "ready"
  /\ LET r == executeStep(interp.variant, interp.step, interp.env) IN
       interp' = [interp EXCEPT
                    !.pc = "done",
                    !.result = << IF r.threw
                                  THEN FailedResult(0, interp.step, r.msg)
                                  ELSE PassedResult(0, interp.step, r.result) >>]
  /\ UNCHANGED <<reqVars, conc, batch, proc, dom>>

InterpNext == InterpretStep

StepSpec == InterpInit /\ [][InterpNext]_vars

\* `t` occurs in `s`.
Contains(s, t) ==
  \E i \in 1..(Len(s) - Len(t) + 1) : SubSeq(s, i, i + Len(t) - 1) = t

\* C11: a toHaveText step passes if and only if the element's text content
\* is exactly expectedValue; when the text differs, the StepResult is
\* 'failed' and its error contains both the expected and the actual text.
C11_ToHaveTextExact ==
  (interp.pc = "done" /\ IsToHaveText(interp.step)) =>
    LET res == interp.result[1]
        expected == interp.step.expectedValue
        actual == interp.env.text
    IN /\ res.status = "passed" <=> (interp.env.op = "ok" /\ actual = expected)
       /\ (interp.env.op = "ok" /\ actual # expected) =>
            /\ res.status = "failed"
            /\ Contains(res.error, expected)
            /\ Contains(res.error, actual)

\* ====================================================== further claims
\* C12: a StepResult carries a failure screenshot if and only if it is
\* 'failed' and its step's screenshotOnFail is not explicitly false; the
\* screenshot is on the failed step's own StepResult by the time the loop
\* decides to continue or stop (the only moment without it is while the
\* screenshot is being awaited); passed StepResults never carry one.
C12_FailureScreenshot ==
  \A k \in 1..Len(results) :
    LET st == Steps[results[k].stepIndex + 1]
        awaited == k = Len(results) /\ pc = "failShot"
    IN /\ results[k].screenshot # Absent =>
            (results[k].status = "failed" /\ st.screenshotOnFail # "false")
       /\ (results[k].status = "failed" /\ st.screenshotOnFail # "false"
           /\ ~awaited /\ "failShot" \notin faults) =>
            results[k].screenshot # Absent
       /\ results[k].status = "passed" => results[k].screenshot = Absent

\* C13: a response is sent only after the browser lifecycle has ended: when
\* a response has been sent for a request that launched a browser, close()
\* has been invoked on it and no step is running; and once a response has
\* been sent the request performs no further browser operation (no launch,
\* no step, no screenshot or other change of results, no close).
C13_ResponseAfterLifecycle ==
  /\ []((Len(responses) >= 1 /\ browser = "launched")
          => (closeCalls >= 1 /\ running = 0 /\ pc = "done"))
  /\ [][Len(responses) >= 1 =>
          UNCHANGED <<launchCalls, closeCalls, executed, running, results, pc>>]_vars

\* A TestReport was sent for a request whose browser was launched and closed.
C13_Witness ==
  /\ Len(responses) = 1
  /\ IsReport(responses[1])
  /\ browser = "launched"
  /\ closeCalls = 1
  /\ Len(executed) >= 1

\* C14: at most one step is being executed at any time; steps are started
\* in increasing index order; a step is started only after the StepResult
\* of every step started before it has been appended to results and, for a
\* failed one whose failure screenshot is due (extended handler,
\* screenshotOnFail not false), after that screenshot has been attached.
C14_StepsStrictlySequential ==
  /\ running \in {0, 1}
  /\ running = 1 <=> pc = "step"
  /\ \A j \in 1..Len(executed) : executed[j] = j - 1
  /\ Len(results) = Len(executed) - running
  /\ \A k \in 1..Len(results) : results[k].stepIndex = executed[k]
  /\ \A k \in 1..Len(results) :
       (k < Len(executed) /\ results[k].status = "failed"
        /\ variant = "extended"
        /\ Steps[k].screenshotOnFail # "false")
         => results[k].screenshot = "attached"

\* The second step is running after the first one failed, had its failure
\* screenshot attached and was continued.
C14_Witness ==
  /\ pc = "step"
  /\ running = 1
  /\ executed = <<0, 1>>
  /\ Len(results) = 1
  /\ results[1].status = "failed"
  /\ results[1].screenshot = "attached"

\* The k-th entry (from 0) has stepIndex k and exactly one of result / error.
WellFormedResults(rs) ==
  \A k \in 1..Len(rs) :
    /\ rs[k].stepIndex = k - 1
    /\ \/ (rs[k].status = "passed" /\ rs[k].result # Absent /\ rs[k].error = Absent)
       \/ (rs[k].status = "failed" /\ rs[k].error # Absent /\ rs[k].result = Absent)

\* C20: at every point of the step loop and in the final report, the k-th
\* entry of results has stepIndex k (gap-free, increasing, one per step)
\* and exactly one of result (passed) or error (failed); entries are never
\* removed or reordered, and only the last entry is ever modified, by
\* attaching a screenshot.
C20_ResultsAppendOnly ==
  /\ [](/\ WellFormedResults(results)
        /\ Len(results) <= Len(Steps)
        /\ \A k \in 1..Len(responses) :
             IsReport(responses[k]) => responses[k].results = results)
  /\ [][/\ Len(results') >= Len(results)
        /\ \A k \in 1..(Len(results) - 1) : results'[k] = results[k]
        /\ Len(results) >= 1 =>
             LET last == Len(results) IN
               \/ results'[last] = results[last]
               \/ results'[last] = [results[last] EXCEPT !.screenshot = "attached"]
       ]_vars

\* Two entries: a failed one whose screenshot was attached while it was the
\* last, then a passed one appended after it.
C20_Witness ==
  /\ Len(results) = 2
  /\ results[1].status = "failed"
  /\ results[1].screenshot = "attached"
  /\ results[2].status = "passed"
  /\ results[2].stepIndex = 1

\* ================================================== the serving process
\* Requests the process serves one after another.
MaxRequests == 2

Signals == {"SIGTERM", "SIGINT"}

\* Test cases of the requests sent to the process: none, an empty steps
\* list, and a single click.
ProcTestCases ==
  { NoTestCase,
    [present |-> TRUE, name |-> "Login", hasSteps |-> TRUE, steps |-> <<>>],
    [present |-> TRUE, name |-> "Login", hasSteps |-> TRUE,
     steps |-> << MkStep(StrAction("click"), Unset, Unset, Unset, Unset) >>] }

\* app.listen: the process is up and the first request has arrived.
ProcInit ==
  /\ variant \in Variants
  /\ testCase \in ProcTestCases
  /\ pc = "start"
  /\ browser = "undefined"
  /\ launchCalls = 0
  /\ closeCalls = 0
  /\ index = 0
  /\ running = 0
  /\ executed = <<>>
  /\ results = <<>>
  /\ overallStatus = Unset
  /\ error = Unset
  /\ responses = <<>>
  /\ escaped = FALSE
  /\ faults = {}
  /\ interp = Idle /\ conc = Idle /\ batch = Idle /\ dom = Idle
  /\ proc = [pc |-> "up", alive |-> TRUE, exit |-> "none", served |-> 0,
             failures |-> 0]

\* The handler of the current request takes a step; only a live process runs.
RequestStep ==
  /\ proc.alive
  /\ Next

\* The current request ended in a 500 or without any response.
RequestFailed ==
  escaped \/ \E k \in 1..Len(responses) : responses[k].code = 500

\* The next request arrives once the current one has settled.
NextRequest ==
  /\ proc.alive
  /\ pc = "done"
  /\ proc.served + 1 < MaxRequests
  /\ proc' = [proc EXCEPT !.served = @ + 1,
                          !.failures = @ + (IF RequestFailed THEN 1 ELSE 0)]
  /\ testCase' \in ProcTestCases
  /\ pc' = "start"
  /\ browser' = "undefined"
  /\ launchCalls' = 0
  /\ closeCalls' = 0
  /\ index' = 0
  /\ running' = 0
  /\ executed' = <<>>
  /\ results' = <<>>
  /\ overallStatus' = Unset
  /\ error' = Unset
  /\ responses' = <<>>
  /\ escaped' = FALSE
  /\ faults' = {}
  /\ UNCHANGED <<variant, interp, conc, batch, dom>>

\* SIGTERM or SIGINT is delivered: process.exit(0) in the simple variant's
\* handlers (lines 392-400), the default disposition of the signal in the
\* extended variant, which installs none. No handler of a request is resumed.
Shutdown ==
  /\ proc.alive
  /\ \E sig \in Signals : proc' = [proc EXCEPT !.alive = FALSE, !.exit = sig]
  /\ UNCHANGED <<reqVars, interp, conc, batch, dom>>

\* The rejection of an async handler's promise is handled by nobody (no
\* process.on('unhandledRejection'), no error middleware): the runtime
\* terminates the process. A runtime that only warns lets the process run
\* on, which is the case where this action is not taken.
RejectionExit ==
  /\ proc.alive
  /\ escaped
  /\ proc' = [proc EXCEPT !.alive = FALSE, !.exit = "unhandledRejection"]
  /\ UNCHANGED <<reqVars, interp, conc, batch, dom>>

ProcNext ==
  \/ RequestStep
  \/ NextRequest
  \/ Shutdown
  \/ RejectionExit

ProcSpec == ProcInit /\ [][ProcNext]_vars

\* C18: the process terminates only on SIGTERM or SIGINT, and then at once,
\* without tearing down the request in progress; no outcome of a request
\* terminates it, so it is alive to serve the request after a failed one.
C18_OnlySignalsTerminate ==
  /\ [](proc.pc # "idle" => (~proc.alive => proc.exit \in Signals))
  /\ [][(proc.pc # "idle" /\ proc.alive /\ ~proc'.alive) => UNCHANGED reqVars]_vars

\* ================================================== POST /execute-batch
\* Longest testCases list of a batch.
MaxBatch == 2

\* What running a test case through the Test Executor would come to on the
\* pages it visits: every step passes, a step fails, or an exception.
Verdicts == {"passed", "failed", "throws"}

BatchTestCases == { [name |-> nm, verdict |-> vd] : nm \in {"A", "B"}, vd \in Verdicts }

BatchLists == UNION { [1..n -> BatchTestCases] : n \in 0..MaxBatch }

\* `await executeTestCase(testCase, browserType)` (line 104). The file that
\* holds the batch handler neither defines nor imports executeTestCase, so
\* the call raises a ReferenceError before any test case is run.
executeTestCase(tc) == Thrown("executeTestCase is not defined")

\* results.push({testName: testCase.name, status: 'error', error: error.message})
ErrorEntry(tc, message) ==
  [testName |-> tc.name, status |-> "error", error |-> message]

CountStatus(rs, st) == Cardinality({ k \in 1..Len(rs) : rs[k].status = st })

BatchResponse(tcs, rs) ==
  [batchStatus |-> "completed", totalTests |-> Len(tcs),
   passed |-> CountStatus(rs, "passed"), failed |-> CountStatus(rs, "failed"),
   results |-> rs]

BatchInit ==
  /\ ReqIdle
  /\ interp = Idle /\ conc = Idle /\ proc = Idle /\ dom = Idle
  /\ \E has \in BOOLEAN : \E tcs \in BatchLists :
       /\ ~has => tcs = <<>>
       /\ batch = [pc |-> "start", hasTestCases |-> has, testCases |-> tcs,
                   i |-> 0, results |-> <<>>, responses |-> <<>>,
                   escaped |-> FALSE]

\* const results = []; the for...of obtains the iterator of testCases.
BatchEnterLoop ==
  /\ batch.pc = "start"
  /\ batch.hasTestCases
  /\ batch' = [batch EXCEPT !.pc = "loop"]
  /\ UNCHANGED <<reqVars, interp, conc, proc, dom>>

\* req.body.testCases is undefined: `for (... of undefined)` throws a
\* TypeError outside any try block and the handler's promise rejects.
BatchNotIterable ==
  /\ batch.pc = "start"
  /\ ~batch.hasTestCases
  /\ batch' = [batch EXCEPT !.pc = "done", !.escaped = TRUE]
  /\ UNCHANGED <<reqVars, interp, conc, proc, dom>>

\* The per-test try block without its catch: the exception of one test
\* case leaves the loop and the handler.
BatchRunTestUncaught ==
  /\ batch.pc = "loop"
  /\ batch.i < Len(batch.testCases)
  /\ LET tc == batch.testCases[batch.i + 1]
         r == executeTestCase(tc)
     IN batch' = IF r.threw
                 THEN [batch EXCEPT !.pc = "done", !.escaped = TRUE]
                 ELSE [batch EXCEPT !.i = @ + 1,
                                    !.results = Append(@, r.result)]
  /\ UNCHANGED <<reqVars, interp, conc, proc, dom>>

\* One iteration (lines 102-113): the test case is run and its result
\* pushed, or the exception is caught and an 'error' entry pushed.
BatchRunTest ==
  /\ batch.pc = "loop"
  /\ batch.i < Len(batch.testCases)
  /\ LET tc == batch.testCases[batch.i + 1]
         r == executeTestCase(tc)
     IN batch' = [batch EXCEPT
                    !.i = @ + 1,
                    !.results = Append(@, IF r.threw
                                          THEN ErrorEntry(tc, r.msg)
                                          ELSE r.result)]
  /\ UNCHANGED <<reqVars, interp, conc, proc, dom>>

\* res.json({batchStatus: 'completed', totalTests, passed, failed, results})
BatchRespond ==
  /\ batch.pc = "loop"
  /\ batch.i = Len(batch.testCases)
  /\ batch' = [batch EXCEPT
                 !.pc = "done",
                 !.responses = Append(@, BatchResponse(batch.testCases,
                                                       batch.results))]
  /\ UNCHANGED <<reqVars, interp, conc, proc, dom>>

BatchNext ==
  \/ BatchEnterLoop
  \/ BatchNotIterable
  \/ BatchRunTest
  \/ BatchRespond

BatchSpec == BatchInit /\ [][BatchNext]_vars

BatchActive == batch.pc # "idle"

\* C16: the test cases are processed one at a time in input order, an
\* exception raised while running one is captured as an 'error' entry for
\* it without aborting the batch, and the response has batchStatus
\* 'completed', totalTests equal to the number of submitted test cases and
\* exactly one entry per test case in input order.
C16_BatchCapturesErrors ==
  BatchActive =>
    /\ batch.hasTestCases => ~batch.escaped
    /\ Len(batch.results) = batch.i
    /\ \A k \in 1..Len(batch.results) :
         batch.results[k].testName = batch.testCases[k].name
    /\ (batch.pc = "done" /\ batch.hasTestCases) => Len(batch.responses) = 1
    /\ \A k \in 1..Len(batch.responses) :
         LET resp == batch.responses[k] IN
           /\ resp.batchStatus = "completed"
           /\ resp.totalTests = Len(batch.testCases)
           /\ Len(resp.results) = Len(batch.testCases)
           /\ \A j \in 1..Len(resp.results) :
                resp.results[j].testName = batch.testCases[j].name

\* A batch of two test cases was answered, both entries being captured
\* exceptions.
C16_Witness ==
  /\ BatchActive
  /\ batch.pc = "done"
  /\ Len(batch.testCases) = 2
  /\ Len(batch.responses) = 1
  /\ batch.responses[1].results[1].status = "error"
  /\ batch.responses[1].results[2].status = "error"
  /\ batch.responses[1].results[1].testName # batch.responses[1].results[2].testName

CountVerdict(tcs, vd) == Cardinality({ k \in 1..Len(tcs) : tcs[k].verdict = vd })

\* C17: in the batch response, passed is the number of submitted test cases
\* whose steps all pass, failed the number of those with a step failure, a
\* test case has an 'error' entry only when running it raised an exception,
\* and passed + failed + the number of 'error' entries equals totalTests.
C17_BatchTallies ==
  BatchActive =>
    \A k \in 1..Len(batch.responses) :
      LET resp == batch.responses[k] IN
        /\ resp.passed = CountVerdict(batch.testCases, "passed")
        /\ resp.failed = CountVerdict(batch.testCases, "failed")
        /\ \A j \in 1..Len(resp.results) :
             resp.results[j].status = "error"
               => batch.testCases[j].verdict = "throws"
        /\ resp.passed + resp.failed + CountStatus(resp.results, "error")
             = resp.totalTests

\* ========================================================= GET /get-dom
\* The DOM Snapshot Retriever is specified (section 4.3) but none of its
\* code is among the sources; it is modelled from its specification.

\* The retry budget of the extraction ("default 3 attempts").
MaxRetries == 3

\* Ordered (URL substring, selector) rules; `body` is the default rule.
SelectorRules == << [key |-> "/dashboard", selector |-> "dashboard"] >>

DefaultSelector == "body"

\* The selector of the first rule whose substring occurs in the URL.
ResolveSelector(url) ==
  LET hits == { k \in 1..Len(SelectorRules) : Contains(url, SelectorRules[k].key) }
  IN IF hits = {} THEN DefaultSelector
     ELSE SelectorRules[CHOOSE k \in hits : \A j \in hits : k <= j].selector

\* The url query parameter: missing, or a string.
DomUrls == {Unset, "https://x/dashboard", "https://x/home", "https://y/dashboard/1"}

\* A loop bound that is off by one: one attempt more than the budget.
AttemptsLeftInclusive(made) == made <= MaxRetries

\* An attempt may be started while the budget is not used up.
AttemptsLeft(made) == made < MaxRetries

DomInit ==
  /\ ReqIdle
  /\ interp = Idle /\ conc = Idle /\ batch = Idle /\ proc = Idle
  /\ \E u \in DomUrls :
       dom = [pc |-> "start", url |-> u, selector |-> Unset,
              browser |-> "undefined", closeCalls |-> 0, attempts |-> <<>>,
              html |-> Unset, error |-> Unset, logged |-> <<>>,
              responses |-> <<>>]

DomUnchanged == UNCHANGED <<reqVars, interp, conc, batch, proc>>

\* Step 1: url missing or not a string: client error, nothing is acquired.
DomReject ==
  /\ dom.pc = "start"
  /\ dom.url = Unset
  /\ dom' = [dom EXCEPT !.pc = "done",
                        !.responses = Append(@, [code |-> 400])]
  /\ DomUnchanged

\* Step 2: the selector is resolved from the URL.
DomResolve ==
  /\ dom.pc = "start"
  /\ dom.url # Unset
  /\ dom' = [dom EXCEPT !.pc = "launch", !.selector = ResolveSelector(dom.url)]
  /\ DomUnchanged

\* Step 3: browser and browsing context are acquired.
DomLaunchOk ==
  /\ dom.pc = "launch"
  /\ dom' = [dom EXCEPT !.pc = "navigate", !.browser = "launched"]
  /\ DomUnchanged

DomLaunchThrows ==
  /\ dom.pc = "launch"
  /\ dom' = [dom EXCEPT !.pc = "release", !.error = "launch failed"]
  /\ DomUnchanged

\* Step 3: navigation to the url, waiting for network idle.
DomNavigateOk ==
  /\ dom.pc = "navigate"
  /\ dom' = [dom EXCEPT !.pc = "retry"]
  /\ DomUnchanged

DomNavigateThrows ==
  /\ dom.pc = "navigate"
  /\ dom' = [dom EXCEPT !.pc = "release", !.error = "navigation failed"]
  /\ DomUnchanged

\* Step 4: before each attempt the retriever waits for network idle again.
DomWaitIdle ==
  /\ dom.pc = "retry"
  /\ AttemptsLeft(Len(dom.attempts))
  /\ dom' = [dom EXCEPT !.pc = "extract"]
  /\ DomUnchanged

\* Step 4: an attempt yields the selector's outer HTML; the loop ends.
DomExtractOk ==
  /\ dom.pc = "extract"
  /\ dom' = [dom EXCEPT !.pc = "release",
                        !.attempts = Append(@, "ok"),
                        !.html = "<" \o dom.selector \o ">"]
  /\ DomUnchanged

\* Step 4: an attempt finds nothing; the fixed delay follows.
DomExtractFails ==
  /\ dom.pc = "extract"
  /\ dom' = [dom EXCEPT !.pc = "pause", !.attempts = Append(@, "fail")]
  /\ DomUnchanged

DomPause ==
  /\ dom.pc = "pause"
  /\ dom' = [dom EXCEPT !.pc = "retry"]
  /\ DomUnchanged

\* Step 4: the budget is exhausted without a successful attempt.
DomExhausted ==
  /\ dom.pc = "retry"
  /\ ~AttemptsLeft(Len(dom.attempts))
  /\ dom' = [dom EXCEPT !.pc = "release", !.error = "selector not found"]
  /\ DomUnchanged

\* Step 5: the browser is released on every path; a failing release is
\* logged and not re-raised.
DomReleaseOk ==
  /\ dom.pc = "release"
  /\ dom.browser = "launched"
  /\ dom' = [dom EXCEPT !.pc = "respond", !.closeCalls = @ + 1]
  /\ DomUnchanged

DomReleaseLogged ==
  /\ dom.pc = "release"
  /\ dom.browser = "launched"
  /\ dom' = [dom EXCEPT !.pc = "respond", !.closeCalls = @ + 1,
                        !.logged = Append(@, "release failed")]
  /\ DomUnchanged

DomNothingToRelease ==
  /\ dom.pc = "release"
  /\ dom.browser = "undefined"
  /\ dom' = [dom EXCEPT !.pc = "respond"]
  /\ DomUnchanged

\* {url, selectorUsed, html}
DomRespondSnapshot ==
  /\ dom.pc = "respond"
  /\ dom.error = Unset
  /\ dom' = [dom EXCEPT !.pc = "done",
                        !.responses = Append(@, [code |-> 200])]
  /\ DomUnchanged

\* 500 with the failure message.
DomRespondError ==
  /\ dom.pc = "respond"
  /\ dom.error # Unset
  /\ dom' = [dom EXCEPT !.pc = "done",
                        !.responses = Append(@, [code |-> 500,
                                                 error |-> dom.error])]
  /\ DomUnchanged

DomNext ==
  \/ DomReject
  \/ DomResolve
  \/ DomLaunchOk
  \/ DomLaunchThrows
  \/ DomNavigateOk
  \/ DomNavigateThrows
  \/ DomWaitIdle
  \/ DomExtractOk
  \/ DomExtractFails
  \/ DomPause
  \/ DomExhausted
  \/ DomReleaseOk
  \/ DomReleaseLogged
  \/ DomNothingToRelease
  \/ DomRespondSnapshot
  \/ DomRespondError

DomSpec == DomInit /\ [][DomNext]_vars

DomActive == dom.pc # "idle"

AllFailed(as) == \A k \in 1..Len(as) : as[k] = "fail"

\* C19: extraction is attempted at most MaxRetries times; the retrieval
\* succeeds as soon as one attempt succeeds (no attempt follows a successful
\* one, and the answer is then the snapshot); it fails with the
\* selector-not-found error only after MaxRetries failed attempts; the
\* browser has been released once the answer is sent, in both outcomes.
C19_BoundedRetries ==
  DomActive =>
    /\ Len(dom.attempts) <= MaxRetries
    /\ \A k \in 1..(Len(dom.attempts) - 1) : dom.attempts[k] = "fail"
    /\ dom.error = "selector not found" =>
         (Len(dom.attempts) = MaxRetries /\ AllFailed(dom.attempts))
    /\ (dom.pc = "done" /\ ~AllFailed(dom.attempts)) =>
         (dom.responses = << [code |-> 200] >> /\ dom.html # Unset)
    /\ (dom.pc = "done" /\ dom.browser = "launched") => dom.closeCalls = 1
    /\ dom.closeCalls <= 1

\* A failure on attempt 1 followed by success on attempt 2, answered with
\* the snapshot after the browser was released.
C19_Witness ==
  /\ DomActive
  /\ dom.pc = "done"
  /\ dom.attempts = <<"fail", "ok">>
  /\ dom.responses = << [code |-> 200] >>
  /\ dom.closeCalls = 1

\* ============================================== two concurrent requests
\* Two POST /execute-test requests are served by one process; a handler
\* runs until its next await, where the other one may be resumed.
Req == {1, 2}

\* The first step fails or passes and is continued in either variant
\* (continueOnFail: true, stopOnFail: false); the second is a goto.
ConcTestCases ==
  { NoTestCase,
    [present |-> TRUE, name |-> "Login", hasSteps |-> TRUE,
     steps |-> << MkStep(StrAction("click"), Unset, Unset, Unset, Unset) >>],
    [present |-> TRUE, name |-> "Tour", hasSteps |-> TRUE,
     steps |-> << MkStep(StrAction("click"), Unset, "true", "false", Unset),
                  MkStep(StrAction("GOTO"), Unset, Unset, Unset, Unset) >>] }

\* Locals declared once for the whole module instead of once per
\* invocation of the handler: every request uses the same copy.
ModuleScope(r) == 1

\* The scope holding the locals `browser`, `page` and `results` of the
\* handler invocation that serves request r (`let browser` line 24 / 249,
\* `const page` line 33 / 267, `const results` line 38 / 270): one scope
\* per invocation.
Scope(r) == r

NoBrowser == 0

Locals == [browser |-> NoBrowser, page |-> NoBrowser, results |-> <<>>]

ConcInit ==
  /\ ReqIdle
  /\ interp = Idle /\ batch = Idle /\ proc = Idle /\ dom = Idle
  /\ \E v \in Variants : \E tcs \in [Req -> ConcTestCases] :
       conc = [pc |-> "serving", variant |-> v, tc |-> tcs,
               ctl |-> [r \in Req |-> [pc |-> "start", index |-> 0,
                                       error |-> Unset]],
               mem |-> [r \in Req |-> Locals],
               browsers |-> <<>>,
               pageOps |-> {},
               closeLog |-> {},
               seen |-> [r \in Req |-> <<>>],
               responses |-> [r \in Req |-> <<>>],
               escaped |-> [r \in Req |-> FALSE]]

ConcUnchanged == UNCHANGED <<reqVars, interp, batch, proc, dom>>

Loc(r) == conc.mem[Scope(r)]

At(r, label) == conc.ctl[r].pc = label

CSteps(r) == StepsOf(conc.tc[r])

CStep(r) == CSteps(r)[conc.ctl[r].index + 1]

\* Lines 243-247 (simple): the 400 answer.
CReject(r) ==
  /\ At(r, "start")
  /\ conc.variant = "simple"
  /\ ~conc.tc[r].present
  /\ conc' = [conc EXCEPT !.ctl[r].pc = "done",
                          !.responses[r] = Append(@, ClientError)]
  /\ ConcUnchanged

CAccept(r) ==
  /\ At(r, "start")
  /\ conc.variant = "simple" => conc.tc[r].present
  /\ conc' = [conc EXCEPT !.ctl[r].pc = "launch"]
  /\ ConcUnchanged

\* browser = await launch(...): a new browser, or an exception.
CLaunch(r) ==
  /\ At(r, "launch")
  /\ \E ok \in BOOLEAN :
       conc' = IF ok
               THEN [conc EXCEPT
                       !.ctl[r].pc = "newPage",
                       !.browsers = Append(@, [owner |-> r, closes |-> 0]),
                       !.mem[Scope(r)].browser = Len(conc.browsers) + 1]
               ELSE [conc EXCEPT !.ctl[r].pc = "catch",
                                 !.ctl[r].error = "launch failed"]
  /\ ConcUnchanged

\* const page = await browser.newPage()
CNewPage(r) ==
  /\ At(r, "newPage")
  /\ \E ok \in BOOLEAN :
       conc' = IF ok
               THEN [conc EXCEPT !.ctl[r].pc = "viewport",
                                 !.mem[Scope(r)].page = Loc(r).browser]
               ELSE [conc EXCEPT !.ctl[r].pc = "catch",
                                 !.ctl[r].error = "newPage failed"]
  /\ ConcUnchanged

\* await page.setViewportSize(...)
CViewport(r) ==
  /\ At(r, "viewport")
  /\ \E ok \in BOOLEAN :
       conc' = IF ok
               THEN [conc EXCEPT !.ctl[r].pc = "loop"]
               ELSE [conc EXCEPT !.ctl[r].pc = "catch",
                                 !.ctl[r].error = "setViewportSize failed"]
  /\ ConcUnchanged

\* const results = []; the loop header is evaluated.
CEnterLoop(r) ==
  /\ At(r, "loop")
  /\ conc' = IF LoopHeaderThrows(conc.variant, conc.tc[r])
             THEN [conc EXCEPT !.ctl[r].pc = "catch",
                               !.ctl[r].error = LoopHeaderError(conc.tc[r]),
                               !.mem[Scope(r)].results = <<>>]
             ELSE [conc EXCEPT !.ctl[r].pc = "iterate",
                               !.mem[Scope(r)].results = <<>>]
  /\ ConcUnchanged

\* executeStep(page, step) is invoked on the page the local `page` refers to.
CCallStep(r) ==
  /\ At(r, "iterate")
  /\ conc.ctl[r].index < Len(CSteps(r))
  /\ conc' = [conc EXCEPT
                !.ctl[r].pc = "step",
                !.pageOps = @ \cup {[req |-> r, browser |-> Loc(r).page]}]
  /\ ConcUnchanged

CExitLoop(r) ==
  /\ At(r, "iterate")
  /\ conc.ctl[r].index >= Len(CSteps(r))
  /\ conc' = [conc EXCEPT !.ctl[r].pc = "close"]
  /\ ConcUnchanged

\* Where the loop goes after a failed step whose handling is complete.
CAfterFailure(r) ==
  IF StopsOnFailure(conc.variant, CStep(r))
  THEN [pc |-> "close", index |-> conc.ctl[r].index, error |-> conc.ctl[r].error]
  ELSE [pc |-> "iterate", index |-> conc.ctl[r].index + 1,
        error |-> conc.ctl[r].error]

\* await executeStep(...) settles: the StepResult is pushed to `results`.
CStepSettles(r) ==
  /\ At(r, "step")
  /\ \E env \in PageOutcomes(CStep(r)) :
       LET o == executeStep(conc.variant, CStep(r), env)
           i == conc.ctl[r].index
       IN conc' =
            IF ~o.threw
            THEN [conc EXCEPT
                    !.seen[r] = Append(@, env),
                    !.mem[Scope(r)].results =
                       Append(@, PassedResult(i, CStep(r), o.result)),
                    !.ctl[r] = [pc |-> "iterate", index |-> i + 1,
                                error |-> @.error]]
            ELSE [conc EXCEPT
                    !.seen[r] = Append(@, env),
                    !.mem[Scope(r)].results =
                       Append(@, FailedResult(i, CStep(r), o.msg)),
                    !.ctl[r] = IF TakesFailureScreenshot(conc.variant, CStep(r))
                               THEN [pc |-> "failShot", index |-> i,
                                     error |-> @.error]
                               ELSE CAfterFailure(r)]
  /\ ConcUnchanged

\* Extended, lines 60-64: await page.screenshot(), attached to the last
\* entry of `results`.
CFailShot(r) ==
  /\ At(r, "failShot")
  /\ \E ok \in BOOLEAN :
       conc' =
         IF ok
         THEN [conc EXCEPT
                 !.pageOps = @ \cup {[req |-> r, browser |-> Loc(r).page]},
                 !.mem[Scope(r)].results =
                    [@ EXCEPT ![Len(@)].screenshot = "attached"],
                 !.ctl[r] = CAfterFailure(r)]
         ELSE [conc EXCEPT
                 !.pageOps = @ \cup {[req |-> r, browser |-> Loc(r).page]},
                 !.ctl[r].pc = "catch",
                 !.ctl[r].error = OpError]
  /\ ConcUnchanged

\* browser.close() on the browser the local `browser` refers to.
Closing(r, c) ==
  [c EXCEPT !.closeLog = @ \cup {[req |-> r, browser |-> Loc(r).browser]},
            !.browsers[Loc(r).browser].closes = @ + 1]

\* await browser.close() after the loop (line 74 / 297).
CClose(r) ==
  /\ At(r, "close")
  /\ \E ok \in BOOLEAN :
       conc' = IF ok
               THEN [Closing(r, conc) EXCEPT !.ctl[r].pc = "respond"]
               ELSE [Closing(r, conc) EXCEPT !.ctl[r].pc = "catch",
                                             !.ctl[r].error = "close failed"]
  /\ ConcUnchanged

\* Lines 299-307 (simple): the report; lines 76-84 (extended): the
\* ReferenceError on startTime.
CRespond(r) ==
  /\ At(r, "respond")
  /\ conc' =
       IF conc.variant = "simple"
       THEN [conc EXCEPT
               !.ctl[r].pc = "done",
               !.responses[r] =
                  Append(@, Report(conc.variant, conc.tc[r],
                                   OverallStatus(Loc(r).results),
                                   Loc(r).results))]
       ELSE [conc EXCEPT !.ctl[r].pc = "catch",
                         !.ctl[r].error = "startTime is not defined"]
  /\ ConcUnchanged

\* Outer catch with no browser to close.
CCatchNoBrowser(r) ==
  /\ At(r, "catch")
  /\ Loc(r).browser = NoBrowser
  /\ conc' = [conc EXCEPT !.ctl[r].pc = "send500"]
  /\ ConcUnchanged

\* Outer catch: if (browser) await browser.close(); a throwing close is
\* logged (simple) or leaves the handler (extended).
CCatchClose(r) ==
  /\ At(r, "catch")
  /\ Loc(r).browser # NoBrowser
  /\ \E ok \in BOOLEAN :
       conc' =
         IF ok \/ conc.variant = "simple"
         THEN [Closing(r, conc) EXCEPT !.ctl[r].pc = "send500"]
         ELSE [Closing(r, conc) EXCEPT !.ctl[r].pc = "done",
                                       !.escaped[r] = TRUE]
  /\ ConcUnchanged

CSendServerError(r) ==
  /\ At(r, "send500")
  /\ conc' = [conc EXCEPT
                !.ctl[r].pc = "done",
                !.responses[r] = Append(@, ServerError(conc.ctl[r].error))]
  /\ ConcUnchanged

ConcNext ==
  \E r \in Req :
    \/ CReject(r)
    \/ CAccept(r)
    \/ CLaunch(r)
    \/ CNewPage(r)
    \/ CViewport(r)
    \/ CEnterLoop(r)
    \/ CCallStep(r)
    \/ CExitLoop(r)
    \/ CStepSettles(r)
    \/ CFailShot(r)
    \/ CClose(r)
    \/ CRespond(r)
    \/ CCatchNoBrowser(r)
    \/ CCatchClose(r)
    \/ CSendServerError(r)

ConcSpec == ConcInit /\ [][ConcNext]_vars

\* The results a request produces when it is served alone and its steps
\* meet the page outcomes `outs`, one per executed step.
RECURSIVE RunAlone(_, _, _, _, _)
RunAlone(v, steps, outs, i, acc) ==
  IF i > Len(steps) \/ i > Len(outs)
  THEN acc
  ELSE LET o == executeStep(v, steps[i], outs[i])
       IN IF ~o.threw
          THEN RunAlone(v, steps, outs, i + 1,
                        Append(acc, PassedResult(i - 1, steps[i], o.result)))
          ELSE LET f == [FailedResult(i - 1, steps[i], o.msg) EXCEPT
                           !.screenshot =
                              IF TakesFailureScreenshot(v, steps[i])
                              THEN "attached" ELSE Absent]
               IN IF StopsOnFailure(v, steps[i])
                  THEN Append(acc, f)
                  ELSE RunAlone(v, steps, outs, i + 1, Append(acc, f))

AloneResults(r) == RunAlone(conc.variant, CSteps(r), conc.seen[r], 1, <<>>)

OwnedBy(r) == { b \in 1..Len(conc.browsers) : conc.browsers[b].owner = r }

HoldsBrowser(r) ==
  conc.ctl[r].pc \in {"newPage", "viewport", "loop", "iterate", "step",
                      "failShot", "close", "respond"}

ConcReports(r) ==
  { k \in 1..Len(conc.responses[r]) : conc.responses[r][k].code = 200 }

\* C15: in every interleaving of two concurrent POST /execute-test
\* requests, each request launches one browser of its own (exactly one
\* while it runs steps and when it reports, never more), runs its steps
\* and failure screenshots only on the page of that browser, closes only
\* that browser, leaves the loop with exactly the StepResults of its own
\* test case, and any report it sends is the report it sends when served
\* alone with the same step outcomes.
C15_RequestsIsolated ==
  conc.pc = "serving" =>
    \A r \in Req :
      /\ Cardinality(OwnedBy(r)) <= 1
      /\ (HoldsBrowser(r) \/ ConcReports(r) # {}) =>
            /\ Cardinality(OwnedBy(r)) = 1
            /\ Loc(r).browser \in OwnedBy(r)
      /\ \A e \in conc.pageOps : e.req = r => e.browser \in OwnedBy(r)
      /\ \A e \in conc.closeLog : e.req = r => e.browser \in OwnedBy(r)
      /\ conc.ctl[r].pc \in {"close", "respond"} =>
            Loc(r).results = AloneResults(r)
      /\ \A k \in ConcReports(r) :
            conc.responses[r][k] =
              Report(conc.variant, conc.tc[r],
                     OverallStatus(AloneResults(r)), AloneResults(r))

\* Request 2 launched first and is still awaiting its second step, its
\* browser open and one failed StepResult recorded, while request 1 has
\* launched, run, closed its own browser and sent its report.
C15_Witness ==
  /\ conc.pc = "serving"
  /\ conc.variant = "simple"
  /\ At(1, "done") /\ ConcReports(1) # {}
  /\ conc.responses[1][1].status = "passed"
  /\ Len(conc.responses[1][1].results) = 1
  /\ At(2, "step") /\ conc.ctl[2].index = 1
  /\ Len(Loc(2).results) = 1 /\ Loc(2).results[1].status = "failed"
  /\ Len(conc.browsers) = 2
  /\ conc.browsers[1] = [owner |-> 2, closes |-> 0]
  /\ conc.browsers[2] = [owner |-> 1, closes |-> 1]
====
